---- MODULE Spec2Model ----
(***************************************************************************)
(* State-machine model of the truss-review Probot app: the webhook         *)
(* handlers of index.ts (its four recorded variants), the in-flight set    *)
(* processedPRs, the comment templates of prompts.ts and GiphyService.     *)
(*                                                                         *)
(* A handler is an async function on a single-threaded event loop: it runs *)
(* without interruption from one await to the next.  Every action below is *)
(* one such uninterrupted segment: the dispatch of a delivery up to the    *)
(* first await, or the resumption after an awaited call has returned or    *)
(* thrown, up to the next await or the return.                             *)
(*                                                                         *)
(* Text is a sequence of string tokens, concatenated with \o.  The emoji   *)
(* of the templates are written as :wave: :x: :skull: (the parser takes    *)
(* ASCII only), the backtick fence of the prompt as ~~~.                    *)
(***************************************************************************)
EXTENDS Naturals, Sequences, FiniteSets, TLC

\* ------------------------------------------------------------------ bounds
\* Number of webhook deliveries the dispatcher hands to the handler.
MaxRuns == 2
\* Number of distinct pull requests the deliveries may be about.
NumPRs == 2

Runs == 1..MaxRuns
PRs == 1..NumPRs

\* ------------------------------------------------------- JavaScript values
NULL == "<null>"
UNDEFINED == "<undefined>"
\* JavaScript truthiness of a string | null | undefined value.
Truthy(v) == v \notin {NULL, UNDEFINED, ""}

UpperChars == <<"A","B","C","D","E","F","G","H","I","J","K","L","M",
                "N","O","P","Q","R","S","T","U","V","W","X","Y","Z">>
LowerChars == <<"a","b","c","d","e","f","g","h","i","j","k","l","m",
                "n","o","p","q","r","s","t","u","v","w","x","y","z">>
\* String.prototype.toLowerCase, character by character.
LowerChar(c) ==
  IF \E i \in DOMAIN UpperChars : UpperChars[i] = c
    THEN LowerChars[CHOOSE i \in DOMAIN UpperChars : UpperChars[i] = c]
    ELSE c
toLowerCase(s) == [i \in DOMAIN s |-> LowerChar(s[i])]

\* The characters the regular expression class \s matches.
WhitespaceChars == {" ", "\t", "\n", "\r"}
IsNotWhitespace(c) == c \notin WhitespaceChars
\* s.replace(/\s+/g, ''): every run of whitespace is removed.
StripWhitespace(s) == SelectSeq(s, IsNotWhitespace)

\* ------------------------------------------------------ webhook payloads
Owners == <<"acme", "truss">>
Logins == << <<"k","e","n","k","a","n","t","z","e","r","-","t","r","u","s","s">>,
             <<"C","h","r","i","s","C","h","e","n","C","S","Q">>,
             <<"u","n","k","n","o","w","n","-","u","s","e","r">> >>

\* context.repo() and payload.pull_request of the deliveries about PR p.
RepoOwner(p) == Owners[((p - 1) % Len(Owners)) + 1]
RepoName(p) == "app"
PRNumber(p) == ((p - 1) \div Len(Owners)) + 1
UserLogin(p) == Logins[((p - 1) % Len(Logins)) + 1]
PRStats(p) == [changedFiles |-> 3, additions |-> 10 + p, deletions |-> 2]

\* Mutation: the key is built from the pull request number alone.
prIdNumberOnly(p) == <<"#", ToString(PRNumber(p))>>

\* `${context.repo().owner}/${context.repo().repo}#${pr.number}`
prId(p) == <<RepoOwner(p), "/", RepoName(p), "#", ToString(PRNumber(p))>>

TrussReviewLabel == "truss-review"
Labels == {TrussReviewLabel, "bug"}
NoLabel == "<none>"

\* The four recorded variants of index.ts and the events each binds.
Variants == {"greeting", "opened", "labeled", "extended"}
EventsOf(v) ==
  CASE v = "greeting" -> {"pull_request.opened", "pull_request.synchronize"}
    [] v = "opened" -> {"pull_request.opened"}
    [] v = "labeled" -> {"pull_request.labeled"}
    [] v = "extended" -> {"pull_request.labeled"}

\* ------------------------------------------------------------- prompts.ts
createSuccessComment(username, roast) ==
  <<":wave: Thanks for opening this PR, @">> \o username \o <<"! ", "\n", "\n">>
    \o roast \o <<"\n">>

\* Mutation: the template interpolates nothing.
createFallbackCommentNoUser(username) ==
  <<":wave: Thanks for opening this PR, @">> \o <<"! ", "\n", "\n">>
    \o <<":x: Failed to roast your code. Even the AI couldn't handle this mess. :skull:">>

createFallbackComment(username) ==
  <<":wave: Thanks for opening this PR, @">> \o username \o <<"! ", "\n", "\n">>
    \o <<":x: Failed to roast your code. Even the AI couldn't handle this mess. :skull:">>

\* The body of the greeting-only variant.
GreetingComment(username) ==
  <<":wave: Thanks for opening this PR, @">> \o username
    \o <<"! The AI review bot is active.">>

\* ------------------------------------------------------ services/giphy.ts
GifUrl == "https://g/1.gif"

\* What this.client.search may do: reject, or resolve to a response whose
\* data field is missing, empty, or holds one (possibly malformed) result.
GiphyResponses ==
  << [rejects |-> TRUE,  hasData |-> FALSE, data |-> <<>>],
     [rejects |-> FALSE, hasData |-> FALSE, data |-> <<>>],
     [rejects |-> FALSE, hasData |-> TRUE,  data |-> <<>>],
     [rejects |-> FALSE, hasData |-> TRUE,
      data |-> << [hasImages |-> TRUE, url |-> GifUrl] >>],
     [rejects |-> FALSE, hasData |-> TRUE,
      data |-> << [hasImages |-> FALSE, url |-> UNDEFINED] >>],
     [rejects |-> FALSE, hasData |-> TRUE,
      data |-> << [hasImages |-> TRUE, url |-> UNDEFINED] >>],
     [rejects |-> FALSE, hasData |-> TRUE,
      data |-> << [hasImages |-> TRUE, url |-> ""] >> ]
  >>

\* GiphyService.searchGif: the settled promise, [threw, value].  Reading
\* images.original.url of a result without images is a TypeError, thrown
\* inside the try and caught with the provider's own errors.
searchGif(resp) ==
  IF resp.rejects
    THEN [threw |-> FALSE, value |-> NULL]
    ELSE IF resp.hasData /\ Len(resp.data) > 0
      THEN IF resp.data[1].hasImages
             THEN [threw |-> FALSE, value |-> resp.data[1].url]
             ELSE [threw |-> FALSE, value |-> NULL]
      ELSE [threw |-> FALSE, value |-> NULL]

\* ----------------------------------------------------- services/openai.js
\* The texts the completion provider may return.
Roasts == { <<"X is bad">> }
SearchTerms == { <<"O","h"," ","N","o","!">> }
\* The diff body pulls.get may return.
Diffs == { <<"+foo", "\n", "-bar">> }

\* --------------------------------------------------------------- index.ts
VARIABLES
  variant,       \* which recorded variant of index.ts is deployed
  processedPRs,  \* the module-level Set<string> of in-flight PR ids
  pc,            \* per delivery: where its handler invocation stands
  delivery,      \* per delivery: the payload [event, pr, label]
  disp,          \* per delivery: how the guards disposed of it
  loc,           \* per delivery: the handler's local constants
  trace,         \* per delivery: the external calls it made, in order
  pure           \* the last application of a pure function: [fn, in, out]

vars == <<variant, processedPRs, pc, delivery, disp, loc, trace, pure>>

NoPure == [fn |-> "<none>", in |-> <<>>, out |-> <<>>]

NoDelivery == [event |-> "<none>", pr |-> 0, label |-> NoLabel]
NoLocals == [diff |-> <<>>, roast |-> <<>>, gifSearchTerm |-> <<>>, gifUrl |-> UNDEFINED]

Init ==
  /\ variant \in Variants
  /\ processedPRs = {}
  /\ pc = [r \in Runs |-> "idle"]
  /\ delivery = [r \in Runs |-> NoDelivery]
  /\ disp = [r \in Runs |-> "none"]
  /\ loc = [r \in Runs |-> NoLocals]
  /\ trace = [r \in Runs |-> <<>>]
  /\ pure = NoPure

\* An external call just issued, and the same call once it has settled.
Call(name, arg) == [call |-> name, arg |-> arg, res |-> "pending"]
Settle(t, res) == [t EXCEPT ![Len(t)].res = res]

\* Deliveries are numbered in the order the dispatcher invokes the handler.
NextToDispatch(r) ==
  /\ pc[r] = "idle"
  /\ \A q \in Runs : q < r => pc[q] # "idle"

\* Mutation: the label filter lets every label through.
LabelMatchesAnyLabel(label) == label \in Labels

\* if (label.name !== "truss-review") return;
LabelMatches(label) == label = TrussReviewLabel

\* Mutation: the delete is lost.
ReleaseNothing(set, id) == set

\* processedPRs.delete(prId)
Release(set, id) == set \ {id}

\* Mutation: the has() test is lost, every delivery starts the pipeline.
GuardAndStartNoCheck(r, p) ==
  /\ processedPRs' = processedPRs \cup {prId(p)}
  /\ trace' = [trace EXCEPT ![r] = Append(@, Call("pulls.get", prId(p)))]
  /\ pc' = [pc EXCEPT ![r] = "await_diff"]
  /\ disp' = [disp EXCEPT ![r] = "accepted"]

\* Mutation: the add() is deferred past the first await (here: lost).
GuardAndStartAddDeferred(r, p) ==
  IF prId(p) \in processedPRs
    THEN /\ pc' = [pc EXCEPT ![r] = "returned"]
         /\ disp' = [disp EXCEPT ![r] = "dropped"]
         /\ UNCHANGED <<processedPRs, trace>>
    ELSE /\ trace' = [trace EXCEPT ![r] = Append(@, Call("pulls.get", prId(p)))]
         /\ pc' = [pc EXCEPT ![r] = "await_diff"]
         /\ disp' = [disp EXCEPT ![r] = "accepted"]
         /\ UNCHANGED processedPRs

\* processedPRs.has(prId) ... processedPRs.add(prId) ... try { await pulls.get
\* The guard and the first call of the roast handlers, with no await between.
GuardAndStart(r, p) ==
  IF prId(p) \in processedPRs
    THEN /\ pc' = [pc EXCEPT ![r] = "returned"]
         /\ disp' = [disp EXCEPT ![r] = "dropped"]
         /\ UNCHANGED <<processedPRs, trace>>
    ELSE /\ processedPRs' = processedPRs \cup {prId(p)}
         /\ trace' = [trace EXCEPT ![r] = Append(@, Call("pulls.get", prId(p)))]
         /\ pc' = [pc EXCEPT ![r] = "await_diff"]
         /\ disp' = [disp EXCEPT ![r] = "accepted"]

\* app.on("pull_request.opened", ...) of the roast-on-open variant.
DeliverOpened(r) ==
  /\ variant = "opened"
  /\ NextToDispatch(r)
  /\ \E p \in PRs :
       /\ delivery' = [delivery EXCEPT
                         ![r] = [event |-> "pull_request.opened", pr |-> p, label |-> NoLabel]]
       /\ GuardAndStart(r, p)
  /\ UNCHANGED <<variant, loc, pure>>

\* app.on("pull_request.labeled", ...) of both label-triggered variants.
DeliverLabeled(r) ==
  /\ variant \in {"labeled", "extended"}
  /\ NextToDispatch(r)
  /\ \E p \in PRs, l \in Labels :
       /\ delivery' = [delivery EXCEPT
                         ![r] = [event |-> "pull_request.labeled", pr |-> p, label |-> l]]
       /\ IF LabelMatches(l)
            THEN GuardAndStart(r, p)
            ELSE /\ pc' = [pc EXCEPT ![r] = "returned"]
                 /\ disp' = [disp EXCEPT ![r] = "ignored"]
                 /\ UNCHANGED <<processedPRs, trace>>
  /\ UNCHANGED <<variant, loc, pure>>

\* app.on(["pull_request.opened", "pull_request.synchronize"], ...)
DeliverGreeting(r) ==
  /\ variant = "greeting"
  /\ NextToDispatch(r)
  /\ \E p \in PRs, e \in EventsOf("greeting") :
       /\ delivery' = [delivery EXCEPT ![r] = [event |-> e, pr |-> p, label |-> NoLabel]]
       /\ trace' = [trace EXCEPT
                      ![r] = Append(@, Call("createComment", GreetingComment(UserLogin(p))))]
  /\ pc' = [pc EXCEPT ![r] = "await_greeting"]
  /\ disp' = [disp EXCEPT ![r] = "accepted"]
  /\ UNCHANGED <<variant, processedPRs, loc, pure>>

\* -------------------------------------------- user-profiles.ts, style-guide.ts
\* The keys of the userProfiles table, as written in the source.
userProfileKeys ==
  { <<"k","e","n","k","a","n","t","z","e","r","-","t","r","u","s","s">>,
    <<"y","d","e","v","-","t","r","u","s","s">>,
    <<"C","h","r","i","s","C","h","e","n","C","S","Q">>,
    <<"m","o","h","a","m","m","a","d","-","t","r","u","s","s">>,
    <<"s","a","t","y","a","d","e","v","-","t","r","u","s","s">> ,
    <<"J","e","f","f","M","W","9","9">> }
\* The profile stored under key k (the text itself is opaque).
userProfiles(k) == <<"profile of ">> \o k

Some(text) == [defined |-> TRUE, text |-> text]
None == [defined |-> FALSE, text |-> <<>>]

\* userProfiles is an object literal: a lookup of a name it does not own goes
\* on to Object.prototype.  Of the names found there, these are unchanged
\* by toLowerCase; the value found is a function or an object, never falsy.
InheritedKeys ==
  { <<"c","o","n","s","t","r","u","c","t","o","r">>,
    <<"_","_","p","r","o","t","o","_","_">> }
Inherited(k) == <<"[inherited ">> \o k \o <<"]">>

\* return userProfiles[githubUsername.toLowerCase()] || null;
getUserContext(githubUsername) ==
  IF toLowerCase(githubUsername) \in userProfileKeys
    THEN Some(userProfiles(toLowerCase(githubUsername)))
    ELSE IF toLowerCase(githubUsername) \in InheritedKeys
      THEN Some(Inherited(toLowerCase(githubUsername)))
      ELSE None

STYLE_GUIDE == <<"\n**Company Coding Standards:**\n# Truss Code Style Guide ...">>
getStyleGuideForPrompt == <<"\n**Style Guide:**\n">> \o STYLE_GUIDE

\* ------------------------------------------------- index.ts, the pipeline
PrOf(r) == delivery[r].pr
LoginOf(r) == UserLogin(PrOf(r))

\* generateRoast(stats, diff.data, authorContext || undefined, styleGuideContext)
\* (the roast-on-open variant passes no style guide).
RoastArgs(r, diff) ==
  [stats |-> PRStats(PrOf(r)),
   diff |-> diff,
   authorContext |-> getUserContext(LoginOf(r)),
   styleGuideContext |-> IF variant = "opened" THEN None ELSE Some(getStyleGuideForPrompt)]

\* const hashtag = gifSearchTerm.replace(/\s+/g, '').toLowerCase();
Hashtag(gifSearchTerm) == toLowerCase(StripWhitespace(gifSearchTerm))

\* Mutation: the image block is appended unless gifUrl is null.
CommentBodyUnlessNull(username, roast, gifSearchTerm, gifUrl) ==
  createSuccessComment(username, roast)
    \o (IF gifUrl # NULL
          THEN <<"\n", "\n", "#">> \o Hashtag(gifSearchTerm) \o <<"\n", "![">>
                 \o gifSearchTerm \o <<"](", gifUrl, ")">>
          ELSE <<>>)

\* let commentBody = createSuccessComment(...); if (gifUrl) { commentBody += ... }
CommentBody(username, roast, gifSearchTerm, gifUrl) ==
  createSuccessComment(username, roast)
    \o (IF Truthy(gifUrl)
          THEN <<"\n", "\n", "#">> \o Hashtag(gifSearchTerm) \o <<"\n", "![">>
                 \o gifSearchTerm \o <<"](", gifUrl, ")">>
          ELSE <<>>)

\* Mutation: the catch block posts the fallback without deleting the key.
CatchBlockKeepsKey(r, settled) ==
  /\ loc' = [loc EXCEPT ![r] = NoLocals]
  /\ trace' = [trace EXCEPT
                 ![r] = Append(settled, Call("createComment", createFallbackComment(LoginOf(r))))]
  /\ pc' = [pc EXCEPT ![r] = "await_fallback"]
  /\ UNCHANGED processedPRs

\* catch (error) { processedPRs.delete(prId); try { await createComment(fallback)
\* `settled` is the run's trace with the call that threw marked failed.  The
\* constants declared inside the try block are out of scope here.
CatchBlock(r, settled) ==
  /\ processedPRs' = Release(processedPRs, prId(PrOf(r)))
  /\ loc' = [loc EXCEPT ![r] = NoLocals]
  /\ trace' = [trace EXCEPT
                 ![r] = Append(settled, Call("createComment", createFallbackComment(LoginOf(r))))]
  /\ pc' = [pc EXCEPT ![r] = "await_fallback"]

\* await context.octokit.pulls.get(...) resolves.
DiffReturns(r) ==
  /\ pc[r] = "await_diff"
  /\ \E d \in Diffs :
       /\ loc' = [loc EXCEPT ![r].diff = d]
       /\ trace' = [trace EXCEPT
                      ![r] = Append(Settle(@, "ok"), Call("generateRoast", RoastArgs(r, d)))]
  /\ pc' = [pc EXCEPT ![r] = "await_roast"]
  /\ UNCHANGED <<variant, processedPRs, delivery, disp, pure>>

\* Mutation: the rejection is swallowed and the roast is asked for anyway.
DiffFailsContinues(r) ==
  /\ pc[r] = "await_diff"
  /\ trace' = [trace EXCEPT
                 ![r] = Append(Settle(@, "fail"), Call("generateRoast", RoastArgs(r, <<>>)))]
  /\ pc' = [pc EXCEPT ![r] = "await_roast"]
  /\ UNCHANGED <<variant, processedPRs, delivery, disp, loc, pure>>

\* await context.octokit.pulls.get(...) rejects.
DiffFails(r) ==
  /\ pc[r] = "await_diff"
  /\ CatchBlock(r, Settle(trace[r], "fail"))
  /\ UNCHANGED <<variant, delivery, disp, pure>>

\* await openaiService.generateRoast(...) resolves.
RoastReturns(r) ==
  /\ pc[r] = "await_roast"
  /\ \E roast \in Roasts :
       /\ loc' = [loc EXCEPT ![r].roast = roast]
       /\ IF variant = "extended"
            THEN /\ trace' = [trace EXCEPT
                                ![r] = Append(Settle(@, "ok"),
                                              Call("generateGifSearchTerm", roast))]
                 /\ pc' = [pc EXCEPT ![r] = "await_term"]
            ELSE /\ trace' = [trace EXCEPT
                                ![r] = Append(Settle(@, "ok"),
                                              Call("createComment",
                                                   createSuccessComment(LoginOf(r), roast)))]
                 /\ pc' = [pc EXCEPT ![r] = "await_post"]
  /\ UNCHANGED <<variant, processedPRs, delivery, disp, pure>>

\* await openaiService.generateRoast(...) rejects.
RoastFails(r) ==
  /\ pc[r] = "await_roast"
  /\ CatchBlock(r, Settle(trace[r], "fail"))
  /\ UNCHANGED <<variant, delivery, disp, pure>>

\* await openaiService.generateGifSearchTerm(roast) resolves.
SearchTermReturns(r) ==
  /\ pc[r] = "await_term"
  /\ \E t \in SearchTerms :
       /\ loc' = [loc EXCEPT ![r].gifSearchTerm = t]
       /\ trace' = [trace EXCEPT ![r] = Append(Settle(@, "ok"), Call("searchGif", t))]
  /\ pc' = [pc EXCEPT ![r] = "await_gif"]
  /\ UNCHANGED <<variant, processedPRs, delivery, disp, pure>>

\* await openaiService.generateGifSearchTerm(roast) rejects.
SearchTermFails(r) ==
  /\ pc[r] = "await_term"
  /\ CatchBlock(r, Settle(trace[r], "fail"))
  /\ UNCHANGED <<variant, delivery, disp, pure>>

\* await giphyService.searchGif(gifSearchTerm) settles; the comment is built
\* and its post issued.
SearchGifSettles(r) ==
  /\ pc[r] = "await_gif"
  /\ \E i \in DOMAIN GiphyResponses :
       LET out == searchGif(GiphyResponses[i]) IN
         IF out.threw
           THEN CatchBlock(r, Settle(trace[r], "fail"))
           ELSE /\ loc' = [loc EXCEPT ![r].gifUrl = out.value]
                /\ trace' = [trace EXCEPT
                               ![r] = Append(Settle(@, "ok"),
                                             Call("createComment",
                                                  CommentBody(LoginOf(r), loc[r].roast,
                                                              loc[r].gifSearchTerm, out.value)))]
                /\ pc' = [pc EXCEPT ![r] = "await_post"]
                /\ UNCHANGED processedPRs
  /\ UNCHANGED <<variant, delivery, disp, pure>>

\* Mutation: the success path returns without its delete.
SuccessPostReturnsKeepsKey(r) ==
  /\ pc[r] = "await_post"
  /\ trace' = [trace EXCEPT ![r] = Settle(@, "ok")]
  /\ loc' = [loc EXCEPT ![r] = NoLocals]
  /\ pc' = [pc EXCEPT ![r] = "returned"]
  /\ UNCHANGED <<variant, processedPRs, delivery, disp, pure>>

\* Mutation: the fallback is posted in a finally, after a posted roast too.
SuccessPostReturnsThenFallback(r) ==
  /\ pc[r] = "await_post"
  /\ CatchBlock(r, Settle(trace[r], "ok"))
  /\ UNCHANGED <<variant, delivery, disp, pure>>

\* await createComment(success body) resolves; processedPRs.delete(prId).
SuccessPostReturns(r) ==
  /\ pc[r] = "await_post"
  /\ trace' = [trace EXCEPT ![r] = Settle(@, "ok")]
  /\ processedPRs' = Release(processedPRs, prId(PrOf(r)))
  /\ loc' = [loc EXCEPT ![r] = NoLocals]
  /\ pc' = [pc EXCEPT ![r] = "returned"]
  /\ UNCHANGED <<variant, delivery, disp, pure>>

\* Mutation: a failed roast post starts the run over from the roast generation.
SuccessPostFailsRestarts(r) ==
  /\ pc[r] = "await_post"
  /\ trace' = [trace EXCEPT ![r] = [SubSeq(@, 1, 2) EXCEPT ![2].res = "pending"]]
  /\ loc' = [loc EXCEPT ![r] = [NoLocals EXCEPT !.diff = loc[r].diff]]
  /\ pc' = [pc EXCEPT ![r] = "await_roast"]
  /\ UNCHANGED <<variant, processedPRs, delivery, disp, pure>>

\* await createComment(success body) rejects: the post is inside the try.
SuccessPostFails(r) ==
  /\ pc[r] = "await_post"
  /\ CatchBlock(r, Settle(trace[r], "fail"))
  /\ UNCHANGED <<variant, delivery, disp, pure>>

\* await createComment(fallback body) resolves; processedPRs.delete(prId).
FallbackPostReturns(r) ==
  /\ pc[r] = "await_fallback"
  /\ trace' = [trace EXCEPT ![r] = Settle(@, "ok")]
  /\ processedPRs' = Release(processedPRs, prId(PrOf(r)))
  /\ loc' = [loc EXCEPT ![r] = NoLocals]
  /\ pc' = [pc EXCEPT ![r] = "returned"]
  /\ UNCHANGED <<variant, delivery, disp, pure>>

\* Mutation: no inner try/catch, the rejection reaches the dispatcher.
FallbackPostFailsUncaught(r) ==
  /\ pc[r] = "await_fallback"
  /\ trace' = [trace EXCEPT ![r] = Settle(@, "fail")]
  /\ pc' = [pc EXCEPT ![r] = "raised"]
  /\ UNCHANGED <<variant, processedPRs, delivery, disp, loc, pure>>

\* Mutation: a failed fallback post is tried again.
FallbackPostFailsRetries(r) ==
  /\ pc[r] = "await_fallback"
  /\ trace' = [trace EXCEPT
                 ![r] = Append(Settle(@, "fail"),
                               Call("createComment", createFallbackComment(LoginOf(r))))]
  /\ UNCHANGED <<variant, processedPRs, pc, delivery, disp, loc, pure>>

\* catch (commentError) { console.error(...); processedPRs.delete(prId); }
FallbackPostFails(r) ==
  /\ pc[r] = "await_fallback"
  /\ trace' = [trace EXCEPT ![r] = Settle(@, "fail")]
  /\ processedPRs' = Release(processedPRs, prId(PrOf(r)))
  /\ loc' = [loc EXCEPT ![r] = NoLocals]
  /\ pc' = [pc EXCEPT ![r] = "returned"]
  /\ UNCHANGED <<variant, delivery, disp, pure>>

\* The greeting variant's only call resolves.
GreetingPostReturns(r) ==
  /\ pc[r] = "await_greeting"
  /\ trace' = [trace EXCEPT ![r] = Settle(@, "ok")]
  /\ pc' = [pc EXCEPT ![r] = "returned"]
  /\ UNCHANGED <<variant, processedPRs, delivery, disp, loc, pure>>

\* Mutation: the rejection is caught inside the handler.
GreetingPostFailsCaught(r) ==
  /\ pc[r] = "await_greeting"
  /\ trace' = [trace EXCEPT ![r] = Settle(@, "fail")]
  /\ pc' = [pc EXCEPT ![r] = "returned"]
  /\ UNCHANGED <<variant, processedPRs, delivery, disp, loc, pure>>

\* The greeting variant's only call rejects: nothing catches it.
GreetingPostFails(r) ==
  /\ pc[r] = "await_greeting"
  /\ trace' = [trace EXCEPT ![r] = Settle(@, "fail")]
  /\ pc' = [pc EXCEPT ![r] = "raised"]
  /\ UNCHANGED <<variant, processedPRs, delivery, disp, loc, pure>>

Next ==
  \E r \in Runs :
    \/ DeliverOpened(r)
    \/ DeliverLabeled(r)
    \/ DeliverGreeting(r)
    \/ DiffReturns(r)
    \/ DiffFails(r)
    \/ RoastReturns(r)
    \/ RoastFails(r)
    \/ SearchTermReturns(r)
    \/ SearchTermFails(r)
    \/ SearchGifSettles(r)
    \/ SuccessPostReturns(r)
    \/ SuccessPostFails(r)
    \/ FallbackPostReturns(r)
    \/ FallbackPostFails(r)
    \/ GreetingPostReturns(r)
    \/ GreetingPostFails(r)

Spec == Init /\ [][Next]_vars

\* The continuation of run r after an await: the pending call of the run
\* resolves or rejects and the handler runs on to its next await or its end.
Settles(r) ==
  \/ DiffReturns(r) \/ DiffFails(r)
  \/ RoastReturns(r) \/ RoastFails(r)
  \/ SearchTermReturns(r) \/ SearchTermFails(r)
  \/ SearchGifSettles(r)
  \/ SuccessPostReturns(r) \/ SuccessPostFails(r)
  \/ FallbackPostReturns(r) \/ FallbackPostFails(r)
  \/ GreetingPostReturns(r) \/ GreetingPostFails(r)

\* Every external call eventually returns or fails, and the event loop then
\* resumes the handler that awaits it.
FairSpec == Spec /\ \A r \in Runs : WF_vars(Settles(r))

\* ------------------------------------------------------------- vocabulary
IsRoastVariant == variant \in {"opened", "labeled", "extended"}
AwaitStates == {"await_diff", "await_roast", "await_term", "await_gif",
                "await_post", "await_fallback", "await_greeting"}
\* The handler invocation has passed its guards and has not returned.
InFlight(r) == pc[r] \in AwaitStates
Accepted(r) == IsRoastVariant /\ disp[r] = "accepted"
CallsOf(r, name) == {i \in DOMAIN trace[r] : trace[r][i].call = name}
FailedCallsOf(r, name) == {i \in CallsOf(r, name) : trace[r][i].res = "fail"}
\* Comments of run r that reached the pull request.
Posted(r) == Cardinality({i \in CallsOf(r, "createComment") : trace[r][i].res = "ok"})
LastCall(r) == trace[r][Len(trace[r])]
\* The dispatcher invokes the handler for delivery r in this step.
Dispatched(r) == pc[r] = "idle" /\ pc'[r] # "idle"
\* Delivery r reaches the processedPRs.has test in this step.
ReachesCheck(r) ==
  /\ Dispatched(r)
  /\ IsRoastVariant
  /\ variant \in {"labeled", "extended"} => delivery'[r].label = TrussReviewLabel
SamePR(q, r) == q # r /\ pc[q] # "idle" /\ pc[r] # "idle" /\ PrOf(q) = PrOf(r)
\* The fixed failure text, as prompts.ts spells it.
FixedFailureTemplate(login) ==
  <<":wave: Thanks for opening this PR, @">> \o login \o <<"! ", "\n", "\n",
    ":x: Failed to roast your code. Even the AI couldn't handle this mess. :skull:">>

\* ------------------------------------------------------------------ claims

\* C1: an accepted run never has two comments posted; once it has returned,
\* its last call was a createComment, and exactly one comment was posted if
\* that call succeeded (none if it failed).
C1_ExactlyOneComment ==
  \A r \in Runs :
    Accepted(r) =>
      /\ Posted(r) <= 1
      /\ pc[r] = "returned" =>
           /\ LastCall(r).call = "createComment"
           /\ Posted(r) = (IF LastCall(r).res = "ok" THEN 1 ELSE 0)

\* C1 witness: one run returned after posting its roast, another returned
\* after a failed step and a posted fallback comment.
C1_Witness ==
  \E q, r \in Runs :
    /\ Accepted(q) /\ pc[q] = "returned" /\ Posted(q) = 1
    /\ Cardinality(CallsOf(q, "createComment")) = 1
    /\ LastCall(q).arg # createFallbackComment(LoginOf(q))
    /\ Accepted(r) /\ pc[r] = "returned" /\ Posted(r) = 1
    /\ LastCall(r).arg = createFallbackComment(LoginOf(r))

\* C2 (as claimed): two accepted runs for the same pull request are never in
\* flight at once, the wait for the fallback post included.
C2_AtMostOneInFlight ==
  \A q, r \in Runs :
    (SamePR(q, r) /\ Accepted(q) /\ Accepted(r)) => ~(InFlight(q) /\ InFlight(r))

\* C3: a delivery that reaches the check while its key is in the set returns
\* at once, has made no call, and leaves the set as it was; it never makes a
\* call later either.
C3_DroppedIsIgnored ==
  /\ [][\A r \in Runs :
          (ReachesCheck(r) /\ prId(delivery'[r].pr) \in processedPRs) =>
            /\ pc'[r] = "returned"
            /\ disp'[r] = "dropped"
            /\ trace'[r] = <<>>
            /\ processedPRs' = processedPRs]_vars
  /\ [](\A r \in Runs : disp[r] = "dropped" => (pc[r] = "returned" /\ trace[r] = <<>>))

\* C3 witness: a delivery was dropped while a run for the same pull request
\* is waiting on a call and holds the key.
C3_Witness ==
  \E q, r \in Runs :
    /\ SamePR(q, r) /\ Accepted(q) /\ InFlight(q)
    /\ prId(PrOf(q)) \in processedPRs
    /\ disp[r] = "dropped" /\ pc[r] = "returned" /\ trace[r] = <<>>

\* C4: the test and the insertion happen in one step: a delivery reaching
\* the check passes exactly when its key is absent, and the key is in the
\* set in the very state in which it has passed, so that of two deliveries
\* dispatched back to back one passes and the other is dropped.
C4_CheckAndInsertAtomic ==
  [][\A r \in Runs :
       ReachesCheck(r) =>
         /\ disp'[r] = (IF prId(delivery'[r].pr) \in processedPRs THEN "dropped" ELSE "accepted")
         /\ disp'[r] = "accepted" => prId(delivery'[r].pr) \in processedPRs']_vars

\* C4 witness: two deliveries for one pull request, dispatched before any
\* call has settled; the first waits for its diff, the second was dropped.
C4_Witness ==
  \E q, r \in Runs :
    /\ q < r /\ SamePR(q, r)
    /\ Accepted(q) /\ pc[q] = "await_diff" /\ Len(trace[q]) = 1
    /\ disp[r] = "dropped" /\ trace[r] = <<>>

\* C5: the step in which an accepted run returns leaves its key out of the
\* set, and whenever no run for a pull request is in flight its key is not
\* in the set.
C5_KeyReleasedAfterRun ==
  /\ [][\A r \in Runs :
          (Accepted(r) /\ InFlight(r) /\ pc'[r] = "returned") =>
            prId(PrOf(r)) \notin processedPRs']_vars
  /\ [](\A p \in PRs :
          (\A r \in Runs : (pc[r] # "idle" /\ PrOf(r) = p) => ~InFlight(r)) =>
            prId(p) \notin processedPRs)

\* C5 witness: a run has returned after its fallback post failed, another
\* after a successful post, and the set holds neither key.
C5_Witness ==
  \E q, r \in Runs :
    /\ Accepted(q) /\ pc[q] = "returned" /\ LastCall(q).res = "fail"
    /\ Accepted(r) /\ pc[r] = "returned" /\ LastCall(r).res = "ok"
    /\ processedPRs = {}

\* C6: a delivery that reaches the check when no run for its pull request is
\* in flight is accepted and starts the pipeline with the diff fetch.
C6_RedeliveryAfterCompletion ==
  [][\A r \in Runs :
       (/\ ReachesCheck(r)
        /\ \A q \in Runs \ {r} :
             (pc[q] # "idle" /\ PrOf(q) = delivery'[r].pr) => ~InFlight(q)) =>
         /\ disp'[r] = "accepted"
         /\ pc'[r] = "await_diff"
         /\ trace'[r] = <<Call("pulls.get", prId(delivery'[r].pr))>>]_vars

\* C6 witness: a run posted its roast and returned (it held the key until
\* then); a later delivery for the same pull request ran again and posted a
\* second comment.
C6_Witness ==
  \E q, r \in Runs :
    /\ q < r /\ SamePR(q, r)
    /\ Accepted(q) /\ pc[q] = "returned" /\ Posted(q) = 1
    /\ Cardinality(CallsOf(q, "createComment")) = 1
    /\ LastCall(q).arg # createFallbackComment(LoginOf(q))
    /\ Accepted(r) /\ pc[r] = "returned" /\ Posted(r) = 1

\* C7: a labeled delivery with another label returns at once with no call
\* made and the set unchanged, and never makes a call later.
C7_OtherLabelNoOp ==
  /\ [][\A r \in Runs :
          (/\ Dispatched(r)
           /\ variant \in {"labeled", "extended"}
           /\ delivery'[r].label # "truss-review") =>
            /\ pc'[r] = "returned"
            /\ trace'[r] = <<>>
            /\ processedPRs' = processedPRs]_vars
  /\ [](\A r \in Runs :
          (variant \in {"labeled", "extended"} /\ pc[r] # "idle"
             /\ delivery[r].label # "truss-review") =>
            (pc[r] = "returned" /\ trace[r] = <<>>))

\* C7 witness: a delivery with the label "bug" returned with no call made
\* while a run for the same pull request is in flight and holds the key.
C7_Witness ==
  \E q, r \in Runs :
    /\ SamePR(q, r) /\ Accepted(q) /\ InFlight(q)
    /\ prId(PrOf(q)) \in processedPRs
    /\ delivery[r].label = "bug" /\ pc[r] = "returned" /\ trace[r] = <<>>

\* C8: no invocation of a roast handler ends by raising to the dispatcher.
C8_NeverRaises ==
  IsRoastVariant => \A r \in Runs : pc[r] # "raised"

\* C8 witness: a run of the extended pipeline whose success post failed and
\* whose fallback post failed too has returned.
C8_Witness ==
  \E r \in Runs :
    /\ variant = "extended" /\ Accepted(r) /\ pc[r] = "returned"
    /\ Cardinality(FailedCallsOf(r, "createComment")) = 2

\* C9: a run whose diff fetch or roast generation failed has made exactly
\* one createComment call, and its body is the fixed failure text with the
\* author's login, whichever of the two steps failed.
C9_FallbackBody ==
  \A r \in Runs :
    (Accepted(r) /\ (FailedCallsOf(r, "pulls.get") # {} \/ FailedCallsOf(r, "generateRoast") # {})) =>
      /\ Cardinality(CallsOf(r, "createComment")) = 1
      /\ \A i \in CallsOf(r, "createComment") :
           /\ i = Len(trace[r])
           /\ trace[r][i].arg = FixedFailureTemplate(LoginOf(r))

\* C9 witness: one run's diff fetch failed, another's roast generation
\* failed, for pull requests of different authors; both fallback posts are out.
C9_Witness ==
  \E q, r \in Runs :
    /\ Accepted(q) /\ FailedCallsOf(q, "pulls.get") # {}
    /\ Accepted(r) /\ FailedCallsOf(r, "generateRoast") # {}
    /\ LoginOf(q) # LoginOf(r)
    /\ LastCall(q).call = "createComment" /\ LastCall(r).call = "createComment"

\* C10 (as claimed): searchGif never throws, what it hands back to the
\* pipeline is a URL or null, and the next call of the run is the post of
\* the success comment carrying the roast.
C10_SearchGifUrlOrNull ==
  \A r \in Runs :
    \A i \in CallsOf(r, "searchGif") :
      trace[r][i].res # "pending" =>
        /\ trace[r][i].res = "ok"
        /\ trace[r][i + 1].call = "createComment"
        /\ SubSeq(trace[r][i + 1].arg, 1, Len(createSuccessComment(LoginOf(r), trace[r][i - 1].arg)))
             = createSuccessComment(LoginOf(r), trace[r][i - 1].arg)
        /\ pc[r] = "await_post" => (loc[r].gifUrl = NULL \/ Truthy(loc[r].gifUrl))

\* Call i of run r posts the fixed failure comment / a roast comment.
IsFallbackPost(r, i) ==
  trace[r][i].call = "createComment" /\ trace[r][i].arg = FixedFailureTemplate(LoginOf(r))
IsSuccessPost(r, i) ==
  trace[r][i].call = "createComment" /\ trace[r][i].arg # FixedFailureTemplate(LoginOf(r))

\* C11 (as claimed): a run whose success post failed attempts no fallback
\* comment post.
C11_NoFallbackAfterFailedPost ==
  \A r \in Runs :
    Accepted(r) =>
      \A i \in DOMAIN trace[r] :
        (IsSuccessPost(r, i) /\ trace[r][i].res = "fail") =>
          ~ \E j \in DOMAIN trace[r] : j > i /\ IsFallbackPost(r, j)

\* ----------------------------------------------- prompts.ts, createUserPrompt
\* if (authorContext) / if (styleGuideContext): undefined and "" are falsy.
TruthyText(opt) == opt.defined /\ opt.text # <<>>

\* Mutation: without an author context the style guide is not appended either.
createUserPromptStyleNeedsAuthor(stats, diff, authorContext, styleGuideContext) ==
  <<"Review this PR:", "\n", "\n", "**Stats:**", "\n",
    "- ", ToString(stats.changedFiles), " files changed", "\n",
    "- ", ToString(stats.additions), " additions", "\n",
    "- ", ToString(stats.deletions), " deletions", "\n">>
    \o (IF TruthyText(authorContext)
          THEN <<"\n", "**Author Info:**", "\n">> \o authorContext.text \o <<"\n">>
                 \o (IF TruthyText(styleGuideContext) THEN styleGuideContext.text ELSE <<>>)
          ELSE <<>>)
    \o <<"\n", "**Diff:**", "\n", "~~~diff", "\n">> \o diff \o <<"\n", "~~~">>

\* Mutation: the style guide is appended before the author info.
createUserPromptStyleFirst(stats, diff, authorContext, styleGuideContext) ==
  <<"Review this PR:", "\n", "\n", "**Stats:**", "\n",
    "- ", ToString(stats.changedFiles), " files changed", "\n",
    "- ", ToString(stats.additions), " additions", "\n",
    "- ", ToString(stats.deletions), " deletions", "\n">>
    \o (IF TruthyText(styleGuideContext) THEN styleGuideContext.text ELSE <<>>)
    \o (IF TruthyText(authorContext)
          THEN <<"\n", "**Author Info:**", "\n">> \o authorContext.text \o <<"\n">>
          ELSE <<>>)
    \o <<"\n", "**Diff:**", "\n", "~~~diff", "\n">> \o diff \o <<"\n", "~~~">>

\* createUserPrompt of the label-triggered variants (four parameters).
createUserPrompt(stats, diff, authorContext, styleGuideContext) ==
  <<"Review this PR:", "\n", "\n", "**Stats:**", "\n",
    "- ", ToString(stats.changedFiles), " files changed", "\n",
    "- ", ToString(stats.additions), " additions", "\n",
    "- ", ToString(stats.deletions), " deletions", "\n">>
    \o (IF TruthyText(authorContext)
          THEN <<"\n", "**Author Info:**", "\n">> \o authorContext.text \o <<"\n">>
          ELSE <<>>)
    \o (IF TruthyText(styleGuideContext) THEN styleGuideContext.text ELSE <<>>)
    \o <<"\n", "**Diff:**", "\n", "~~~diff", "\n">> \o diff \o <<"\n", "~~~">>

\* The user message generateRoast builds from its arguments.
UserPromptOf(args) ==
  createUserPrompt(args.stats, args.diff, args.authorContext, args.styleGuideContext)

\* The author-info block as the prompt spells it.
AuthorInfoBlock(text) == <<"\n", "**Author Info:**", "\n">> \o text \o <<"\n">>
\* Text with is text without, with block inserted at one place.
InsertedAt(with, without, block) ==
  \E k \in 0..Len(without) :
    with = SubSeq(without, 1, k) \o block \o SubSeq(without, k + 1, Len(without))

\* C12: every generateRoast call carries the pull request's stats and the
\* fetched diff, with or without an author profile, and its user prompt, as
\* the call is issued, is the prompt of the same call without author
\* context, with the author-info block inserted when there is a profile and
\* unchanged when there is none.
C12_AuthorContextOptional ==
  \A r \in Runs :
    \A i \in CallsOf(r, "generateRoast") :
      LET a == trace[r][i].arg
          bare == createUserPrompt(PRStats(PrOf(r)), a.diff, None, a.styleGuideContext)
      IN /\ i = 2 /\ trace[r][1].call = "pulls.get" /\ trace[r][1].res = "ok"
         /\ a.stats = PRStats(PrOf(r))
         /\ a.diff \in Diffs
         /\ trace[r][i].res = "pending" =>
              IF a.authorContext.defined
                THEN InsertedAt(UserPromptOf(a), bare, AuthorInfoBlock(a.authorContext.text))
                ELSE UserPromptOf(a) = bare

\* C12 witness: two runs wait for generateRoast, one for an author with a
\* profile, one for an author without.
C12_Witness ==
  \E q, r \in Runs :
    /\ Accepted(q) /\ pc[q] = "await_roast" /\ LastCall(q).arg.authorContext.defined
    /\ Accepted(r) /\ pc[r] = "await_roast" /\ ~LastCall(r).arg.authorContext.defined
    /\ LastCall(r).arg.styleGuideContext.defined

DigitChars == {"0", "1", "2", "3", "4", "5", "6", "7", "8", "9"}
LowerAlnumChars == {LowerChars[i] : i \in DOMAIN LowerChars} \cup DigitChars
IsAlnum(c) == LowerChar(c) \in LowerAlnumChars
\* The run waits for the post of a roast comment that carries the image block.
PostsImageBlock(r) ==
  /\ variant = "extended" /\ pc[r] = "await_post" /\ Truthy(loc[r].gifUrl)
\* The tokens of the comment between its "#" and the end of that line.
PostedHashtag(r) ==
  LET body == LastCall(r).arg
      start == Len(createSuccessComment(LoginOf(r), loc[r].roast)) + 4
      end == CHOOSE k \in start..Len(body) :
               body[k] = "\n" /\ \A j \in start..(k - 1) : body[j] # "\n"
  IN SubSeq(body, start, end - 1)

\* C13 (as claimed): the hashtag in the comment is the search term without
\* its non-alphanumeric characters, lowercased: only lowercase letters and
\* digits.
C13_HashtagAlnum ==
  \A r \in Runs :
    PostsImageBlock(r) =>
      /\ PostedHashtag(r) = toLowerCase(SelectSeq(loc[r].gifSearchTerm, IsAlnum))
      /\ \A i \in DOMAIN PostedHashtag(r) : PostedHashtag(r)[i] \in LowerAlnumChars

\* C14: the body of a roast comment, in every roast variant, is the
\* greeting line to @login, a blank line, the roast and a line end; nothing
\* follows when searchGif gave no non-empty URL, and otherwise exactly a
\* blank line, the "#" line with the hashtag, and the image reference with
\* the search term and the URL.
C14_SuccessCommentShape ==
  \A r \in Runs :
    (Accepted(r) /\ pc[r] = "await_post") =>
      LET body == LastCall(r).arg
          head == <<":wave: Thanks for opening this PR, @">> \o LoginOf(r)
                    \o <<"! ", "\n", "\n">> \o loc[r].roast \o <<"\n">>
          rest == SubSeq(body, Len(head) + 1, Len(body))
      IN /\ LastCall(r).call = "createComment"
         /\ loc[r].roast \in Roasts
         /\ SubSeq(body, 1, Len(head)) = head
         /\ (rest # <<>>) <=> (loc[r].gifUrl \notin {NULL, UNDEFINED, ""})
         /\ rest # <<>> =>
              rest = <<"\n", "\n", "#">> \o Hashtag(loc[r].gifSearchTerm) \o <<"\n", "![">>
                       \o loc[r].gifSearchTerm \o <<"](", loc[r].gifUrl, ")">>

\* C14 witness: one run posts a roast with the image block, another a roast
\* without it because searchGif gave undefined.
C14_Witness ==
  \E q, r \in Runs :
    /\ PostsImageBlock(q) /\ Len(LastCall(q).arg) > Len(createSuccessComment(LoginOf(q), loc[q].roast))
    /\ variant = "extended" /\ pc[r] = "await_post" /\ loc[r].gifUrl = UNDEFINED
    /\ LastCall(r).arg = createSuccessComment(LoginOf(r), loc[r].roast)

\* ------------------------------------------- pure functions on drawn inputs
PromptStats ==
  { [changedFiles |-> 3, additions |-> 10, deletions |-> 2],
    [changedFiles |-> 0, additions |-> 0, deletions |-> 0],
    [changedFiles |-> 1, additions |-> 250, deletions |-> 7] }
PromptDiffs == { <<"+foo", "\n", "-bar">>, <<>>, <<"**Diff:**">> }
\* undefined, the empty string, and two texts.
PromptAuthorContexts ==
  { None, Some(<<>>), Some(<<"Ken Kantzer. CTO.">>),
    Some(<<"\n", "  Yev Deviatov. Senior Engineer.", "\n", "  ">>) }
PromptStyleContexts == { None, Some(<<>>), Some(getStyleGuideForPrompt) }

\* createUserPrompt applied to drawn arguments.
ApplyCreateUserPrompt ==
  /\ \E st \in PromptStats, d \in PromptDiffs,
        ac \in PromptAuthorContexts, sg \in PromptStyleContexts :
       pure' = [fn |-> "createUserPrompt",
                in |-> [stats |-> st, diff |-> d, authorContext |-> ac, styleGuideContext |-> sg],
                out |-> createUserPrompt(st, d, ac, sg)]
  /\ UNCHANGED <<variant, processedPRs, pc, delivery, disp, loc, trace>>

\* The usernames getUserContext is applied to: every key of the table as
\* written, in lower case and in upper case, a login without a profile, and
\* a login that names a member of Object.prototype.
UpperChar(c) ==
  IF \E i \in DOMAIN LowerChars : LowerChars[i] = c
    THEN UpperChars[CHOOSE i \in DOMAIN LowerChars : LowerChars[i] = c]
    ELSE c
toUpperCase(s) == [i \in DOMAIN s |-> UpperChar(s[i])]
Usernames ==
  userProfileKeys
    \cup {toLowerCase(k) : k \in userProfileKeys}
    \cup {toUpperCase(k) : k \in userProfileKeys}
    \cup { <<"u","n","k","n","o","w","n","-","u","s","e","r">>,
           <<"c","o","n","s","t","r","u","c","t","o","r">> }

\* getUserContext applied to a drawn username.
ApplyGetUserContext ==
  /\ \E u \in Usernames :
       pure' = [fn |-> "getUserContext", in |-> u, out |-> getUserContext(u)]
  /\ UNCHANGED <<variant, processedPRs, pc, delivery, disp, loc, trace>>

PromptNext ==
  \/ ApplyCreateUserPrompt
  \/ ApplyGetUserContext

PromptSpec == Init /\ [][PromptNext]_vars

\* The stats block and the diff block as the prompt spells them.
StatsBlock(stats) ==
  <<"Review this PR:", "\n", "\n", "**Stats:**", "\n",
    "- ", ToString(stats.changedFiles), " files changed", "\n",
    "- ", ToString(stats.additions), " additions", "\n",
    "- ", ToString(stats.deletions), " deletions", "\n">>
DiffBlock(diff) == <<"\n", "**Diff:**", "\n", "~~~diff", "\n">> \o diff \o <<"\n", "~~~">>
IsAbsent(opt) == ~opt.defined \/ opt.text = <<>>

\* C15: the prompt is the stats block, then the author-info block if the
\* author context is a non-empty text and nothing if it is undefined or
\* empty, then the style-guide text if it is non-empty and nothing
\* otherwise, then the diff block.
C15_PromptBlocks ==
  pure.fn = "createUserPrompt" =>
    pure.out =
      StatsBlock(pure.in.stats)
        \o (IF IsAbsent(pure.in.authorContext)
              THEN <<>> ELSE AuthorInfoBlock(pure.in.authorContext.text))
        \o (IF IsAbsent(pure.in.styleGuideContext)
              THEN <<>> ELSE pure.in.styleGuideContext.text)
        \o DiffBlock(pure.in.diff)

\* C15 witness: a prompt built with an author context and a style guide.
C15_Witness ==
  /\ pure.fn = "createUserPrompt"
  /\ ~IsAbsent(pure.in.authorContext) /\ ~IsAbsent(pure.in.styleGuideContext)
  /\ Len(pure.out) > Len(StatsBlock(pure.in.stats)) + Len(DiffBlock(pure.in.diff))

\* C16 (as claimed): the key of an accepted run is in the set for as long
\* as the run is in flight, the wait for its fallback post included.
C16_KeyHeldWhileInFlight ==
  \A r \in Runs :
    (Accepted(r) /\ InFlight(r)) => prId(PrOf(r)) \in processedPRs

\* Run r takes a step / enters its catch block / leaves its fallback post.
Steps(r) == pc'[r] # pc[r]
EntersCatch(r) == Accepted(r) /\ pc[r] # "await_fallback" /\ pc'[r] = "await_fallback"
LeavesFallback(r) == Accepted(r) /\ pc[r] = "await_fallback" /\ pc'[r] # "await_fallback"

\* C17: the step that takes a run into its catch block, from the failure of
\* any awaited call of the try, leaves the run's key out of the set with the
\* fallback post pending; the step in which that post returns or fails
\* leaves the key out of the set again and ends the run, and changes
\* nothing in the set when the key was not in it.
C17_ReleaseBeforeAndAfterFallback ==
  [][\A r \in Runs :
       /\ (Accepted(r) /\ InFlight(r) /\ pc[r] # "await_fallback" /\ Steps(r)
             /\ trace'[r][Len(trace[r])].res = "fail") => EntersCatch(r)
       /\ EntersCatch(r) =>
            /\ trace[r][Len(trace[r])].res = "pending"
            /\ trace'[r][Len(trace[r])].res = "fail"
            /\ Len(trace'[r]) = Len(trace[r]) + 1
            /\ LastCall(r)' = Call("createComment", FixedFailureTemplate(LoginOf(r)))
            /\ processedPRs' = processedPRs \ {prId(PrOf(r))}
       /\ LeavesFallback(r) =>
            /\ pc'[r] = "returned"
            /\ LastCall(r).res' \in {"ok", "fail"}
            /\ processedPRs' = processedPRs \ {prId(PrOf(r))}
            /\ prId(PrOf(r)) \notin processedPRs => processedPRs' = processedPRs]_vars

\* C17 witness: a run has returned after its fallback post, and no other
\* delivery for its pull request was ever accepted.
C17_Witness ==
  \E r \in Runs :
    /\ Accepted(r) /\ pc[r] = "returned" /\ IsFallbackPost(r, Len(trace[r]))
    /\ \A q \in Runs \ {r} : ~(SamePR(q, r) /\ Accepted(q))

\* The run whose add() put the key of pull request p into the set: a key is
\* inserted only when a delivery is accepted, and none is accepted while
\* the key is present, so a key that is present was inserted by the last
\* accepted run of that pull request.
AcceptedFor(p) == {q \in Runs : Accepted(q) /\ PrOf(q) = p}
Inserter(p) == CHOOSE q \in AcceptedFor(p) : \A o \in AcceptedFor(p) : o <= q
\* A step of run r takes its key out of the set.
RemovesKey(r) ==
  /\ Accepted(r) /\ Steps(r)
  /\ prId(PrOf(r)) \in processedPRs /\ prId(PrOf(r)) \notin processedPRs'

\* C18 (as claimed): a delete of run r that takes the key out of the set
\* removes r's own insertion, never that of another run still in flight.
C18_ReleaseOwnInsertion ==
  [][\A r \in Runs :
       RemovesKey(r) =>
         ~(Inserter(PrOf(r)) # r /\ InFlight(Inserter(PrOf(r))))]_vars

\* The calls of one run of the pipeline, in the order of the source.
PipelineOrder ==
  IF variant = "extended"
    THEN <<"pulls.get", "generateRoast", "generateGifSearchTerm", "searchGif", "createComment">>
    ELSE <<"pulls.get", "generateRoast", "createComment">>

\* C19: the calls of an accepted run are a prefix of the pipeline order,
\* each issued only when every call before it has returned successfully
\* (the search-term call with the returned roast, the media search with the
\* returned term); after a failed call the only call is the fallback post.
C19_StrictlySequential ==
  \A r \in Runs :
    Accepted(r) =>
      \A i \in DOMAIN trace[r] :
        /\ i < Len(trace[r]) => trace[r][i].res # "pending"
        /\ IF i > 1 /\ trace[r][i - 1].res = "fail"
             THEN /\ IsFallbackPost(r, i)
                  /\ i = Len(trace[r])
             ELSE /\ i <= Len(PipelineOrder)
                  /\ trace[r][i].call = PipelineOrder[i]
                  /\ ~IsFallbackPost(r, i)
                  /\ \A j \in 1..(i - 1) : trace[r][j].res = "ok"
                  /\ trace[r][i].call = "generateGifSearchTerm" => trace[r][i].arg \in Roasts
                  /\ trace[r][i].call = "searchGif" => trace[r][i].arg \in SearchTerms

\* C19 witness: a run of the extended pipeline has made all five calls, each
\* after the one before returned, and has returned.
C19_Witness ==
  \E r \in Runs :
    /\ variant = "extended" /\ Accepted(r) /\ pc[r] = "returned"
    /\ Len(trace[r]) = 5 /\ \A i \in 1..5 : trace[r][i].res = "ok"

\* C20: an accepted run calls the diff fetch, the roast generation, the
\* search-term generation and the media search at most once each and
\* createComment at most once with a roast and at most once with the
\* fallback text; the fallback post directly follows a failed call; a
\* failed fallback post is the run's last call and the run has returned.
C20_NoRetry ==
  \A r \in Runs :
    Accepted(r) =>
      /\ \A name \in {"pulls.get", "generateRoast", "generateGifSearchTerm", "searchGif"} :
           Cardinality(CallsOf(r, name)) <= 1
      /\ Cardinality({i \in DOMAIN trace[r] : IsSuccessPost(r, i)}) <= 1
      /\ Cardinality({i \in DOMAIN trace[r] : IsFallbackPost(r, i)}) <= 1
      /\ Cardinality(CallsOf(r, "createComment")) <= 2
      /\ \A i \in DOMAIN trace[r] :
           IsFallbackPost(r, i) =>
             /\ i > 1 /\ trace[r][i - 1].res = "fail"
             /\ trace[r][i].res = "fail" => (i = Len(trace[r]) /\ pc[r] = "returned")

\* C20 witness: a run of the label-triggered variant whose roast post failed
\* and whose fallback post succeeded has returned with two createComment calls.
C20_Witness ==
  \E r \in Runs :
    /\ variant = "labeled" /\ Accepted(r) /\ pc[r] = "returned"
    /\ Cardinality(CallsOf(r, "createComment")) = 2
    /\ Posted(r) = 1 /\ LastCall(r).res = "ok"

\* C21 (as claimed): in the extended pipeline a run whose generateRoast
\* returned and whose generateGifSearchTerm failed attempts no fallback
\* post; its next call posts the roast comment without an image block.
C21_SearchTermFailureAbsorbed ==
  \A r \in Runs :
    (variant = "extended" /\ Accepted(r)) =>
      \A i \in FailedCallsOf(r, "generateGifSearchTerm") :
        /\ \A j \in DOMAIN trace[r] : ~IsFallbackPost(r, j)
        /\ Len(trace[r]) > i =>
             trace[r][i + 1].call = "createComment"
             /\ trace[r][i + 1].arg = createSuccessComment(LoginOf(r), trace[r][i].arg)

\* C22: when every pending call eventually returns or fails, every accepted
\* run eventually has returned from its handler in a state where its key is
\* not in the set.
C22_EveryRunReturns ==
  \A r \in Runs :
    Accepted(r) ~> (pc[r] = "returned" /\ prId(PrOf(r)) \notin processedPRs)

\* C22 witness: two accepted runs of one pull request, the first through its
\* catch block, have both returned and the set is empty.
C22_Witness ==
  \E q, r \in Runs :
    /\ q < r /\ SamePR(q, r) /\ Accepted(q) /\ Accepted(r)
    /\ pc[q] = "returned" /\ pc[r] = "returned"
    /\ IsFallbackPost(q, Len(trace[q]))
    /\ prId(PrOf(r)) \notin processedPRs

\* C23 (as claimed): for as long as an accepted run waits on a call that
\* does not settle, whichever call it is, every step of the rest of the
\* system leaves the run's key in the set, and a delivery for the same pull
\* request that reaches the check meanwhile is dropped.
C23_HangHoldsKey ==
  [][\A r \in Runs :
       (Accepted(r) /\ InFlight(r) /\ ~Steps(r)) =>
         /\ prId(PrOf(r)) \in processedPRs'
         /\ \A q \in Runs \ {r} :
              (ReachesCheck(q) /\ delivery'[q].pr = PrOf(r)) => disp'[q] = "dropped"]_vars

\* Two pull requests are the same target: same owner, repository and number.
SameTarget(a, b) ==
  RepoOwner(a) = RepoOwner(b) /\ RepoName(a) = RepoName(b) /\ PRNumber(a) = PRNumber(b)

C25_EveryProfileRetrievable ==
  pure.fn = "getUserContext" =>
    /\ \A k \in userProfileKeys :
         toLowerCase(pure.in) = toLowerCase(k) => pure.out = Some(userProfiles(k))
    /\ (\A k \in userProfileKeys : toLowerCase(pure.in) # toLowerCase(k)) => pure.out = None

\* C26: in the greeting variant every delivery, for pull_request.opened or
\* pull_request.synchronize, is accepted whatever other deliveries for the
\* same pull request did or are doing, makes exactly one call, the
\* createComment of the greeting, and touches no in-flight set; the handler
\* returns when the call returns and the failure of the call leaves the
\* handler as an uncaught rejection.
C26_GreetingNoDedupNoContainment ==
  variant = "greeting" =>
    /\ processedPRs = {}
    /\ \A r \in Runs :
         pc[r] # "idle" =>
           /\ disp[r] = "accepted"
           /\ delivery[r].event \in {"pull_request.opened", "pull_request.synchronize"}
           /\ trace[r] = <<[Call("createComment", GreetingComment(LoginOf(r)))
                              EXCEPT !.res = trace[r][1].res]>>
           /\ pc[r] = (CASE trace[r][1].res = "pending" -> "await_greeting"
                         [] trace[r][1].res = "ok" -> "returned"
                         [] trace[r][1].res = "fail" -> "raised")

\* C26 witness: two deliveries for one pull request, an opened and a
\* synchronize; the comment of the first failed and reached the dispatcher,
\* the second posted its own comment all the same.
C26_Witness ==
  \E q, r \in Runs :
    /\ variant = "greeting" /\ q < r /\ SamePR(q, r)
    /\ delivery[q].event = "pull_request.opened"
    /\ delivery[r].event = "pull_request.synchronize"
    /\ pc[q] = "raised" /\ trace[q][1].res = "fail"
    /\ pc[r] = "returned" /\ Posted(r) = 1

====
